---- MODULE Spec2Model ----
(***************************************************************************)
(* Model of senbetu.py: the photo review tool (PhotoReviewApp) and its     *)
(* background analysis thread (ImageAnalyzer).                             *)
(*                                                                         *)
(* Files are numbered 1..NumFiles in their sorted load-time order.  List   *)
(* positions are 1-based here (Python index + 1); current_idx keeps its    *)
(* 0-based Python value.  Similarities are kept in hundredths, so the      *)
(* comparison  sim_prev >= slider_sim.value() / 100.0  of the source is    *)
(* the integer comparison  sim_prev >= slider_sim  here.                   *)
(*                                                                         *)
(* The window stays in the single-image view (stack index 0), the view it  *)
(* opens in; the grid view draws the same store.  The text of the status   *)
(* label is not kept: the counts a commit reports are the count_del and    *)
(* count_sel that Committed computes; attempted, the set of files whose    *)
(* move the loop of execute_actions has tried, is kept beside them.        *)
(***************************************************************************)
EXTENDS Integers, Sequences, FiniteSets, TLC

VARIABLES
    files,          \* self.files: the ordered list of paths (shared with the worker)
    image_data,     \* self.image_data: path -> record
    group_counts,   \* self.group_counts: group id -> count
    current_idx,    \* self.current_idx (0-based)
    slider_blur,    \* self.slider_blur.value()
    slider_sim,     \* self.slider_sim.value()
    has_pixmap,     \* self.current_base_pixmap is not None
    w_pc,           \* position of ImageAnalyzer.run: "loop" or "done"
    w_it,           \* number of list items the for loop has consumed
    last_img_sim,   \* last_img_sim: the path whose image it holds, NoImage for None
    is_running,     \* ImageAnalyzer.is_running
    queue,          \* result_ready signals posted to the foreground, in order
    ingested,       \* paths whose result has been written into a record
    crashed,        \* an exception escaped a foreground handler
    sweep           \* refresh_judgments_instantly in progress: i and curr_group_id

vars == <<files, image_data, group_counts, current_idx, slider_blur, slider_sim,
          has_pixmap, w_pc, w_it, last_img_sim, is_running, queue, ingested,
          crashed, sweep>>

(* ------------------------------ bounds --------------------------------- *)

NumFiles == 3

Paths == 1..NumFiles

\* Values the sharpness measure may return for a loaded image.
ScoreVals == {150}

\* Values calculate_similarity may return, in hundredths.
SimVals == {40, 95}

\* Positions of the blur slider (range 0..500) the operator may choose.
BlurSliderVals == {150, 200}

\* Positions of the similarity slider (range 50..100) the operator may choose.
SimSliderVals == {85, 100}

(* -------------------------- program constants -------------------------- *)

DEFAULT_BLUR_THRESHOLD == 150

DEFAULT_SIMILARITY_THRESHOLD == 85

\* 'group_id': -1 of a fresh record
NO_GROUP == 0 - 1

(* ------------------------------ helpers -------------------------------- *)

Range(s) == {s[i] : i \in 1..Len(s)}

\* self.files.index(fpath), as a 1-based position
IndexOf(fs, fpath) == CHOOSE i \in 1..Len(fs) : fs[i] = fpath

\* self.files.remove(fpath)
ListRemove(fs, fpath) ==
    LET i == IndexOf(fs, fpath)
    IN  SubSeq(fs, 1, i - 1) \o SubSeq(fs, i + 1, Len(fs))

\* del self.image_data[fpath]
DictDel(d, fpath) == [f \in (DOMAIN d) \ {fpath} |-> d[f]]

\* {i: ids.count(i) for i in set(ids)} over the records of d selected by keep
CountIds(d, keep) ==
    LET ks  == {f \in DOMAIN d : keep[f]}
        ids == {d[f].group_id : f \in ks}
    IN  [g \in ids |-> Cardinality({f \in ks : d[f].group_id = g})]

\* the record of a file at construction
NewRecord ==
    [score |-> 0, sim_prev |-> 0, to_delete |-> FALSE, to_select |-> FALSE,
     group_id |-> NO_GROUP, is_blur |-> FALSE]

(* ------------------------- classification ------------------------------ *)

\* the blur flag taken with <= for <
JudgeBlur_Inclusive(d, fpath, blur_th) ==
    [d EXCEPT ![fpath].is_blur = (d[fpath].score <= blur_th)]

\* apply_judgment_logic, the blur flag
JudgeBlur(d, fpath, blur_th) ==
    [d EXCEPT ![fpath].is_blur = (d[fpath].score < blur_th)]

\* apply_judgment_logic, the group id of one record from its predecessor's
JudgeGroup(d, fs, fpath, sim_th) ==
    LET idx == IndexOf(fs, fpath)
    IN  IF idx > 1
        THEN IF d[fpath].sim_prev >= sim_th
             THEN [d EXCEPT ![fpath].group_id = d[fs[idx - 1]].group_id]
             ELSE [d EXCEPT ![fpath].group_id = d[fs[idx - 1]].group_id + 1]
        ELSE [d EXCEPT ![fpath].group_id = 0]

\* apply_judgment_logic(fpath, update_group_id): the new image_data
apply_judgment_logic(d, fs, fpath, blur_th, sim_th, update_group_id) ==
    LET d1 == JudgeBlur(d, fpath, blur_th)
    IN  IF update_group_id THEN JudgeGroup(d1, fs, fpath, sim_th) ELSE d1

\* apply_judgment_logic: the tally over the classified records
IngestCounts(d, gc) ==
    LET keep == [f \in DOMAIN d |-> d[f].group_id # NO_GROUP]
    IN  IF \E f \in DOMAIN d : keep[f] THEN CountIds(d, keep) ELSE gc

\* refresh_judgments_instantly, step 1: the loop over self.files from position i
RECURSIVE BlurPass(_, _, _, _)
BlurPass(d, fs, i, blur_th) ==
    IF i > Len(fs) THEN d
    ELSE BlurPass(apply_judgment_logic(d, fs, fs[i], blur_th, 0, FALSE), fs, i + 1, blur_th)

\* the loop of step 2 with the running counter never advanced
RECURSIVE GroupPass_NoAccumulate(_, _, _, _, _)
GroupPass_NoAccumulate(d, fs, i, curr_group_id, sim_th) ==
    IF i > Len(fs) THEN d
    ELSE IF d[fs[i]].sim_prev >= sim_th
         THEN GroupPass_NoAccumulate([d EXCEPT ![fs[i]].group_id = curr_group_id],
                                     fs, i + 1, curr_group_id, sim_th)
         ELSE GroupPass_NoAccumulate([d EXCEPT ![fs[i]].group_id = curr_group_id + 1],
                                     fs, i + 1, curr_group_id, sim_th)

\* refresh_judgments_instantly, step 2: the loop for i in range(1, len(files))
RECURSIVE GroupPass(_, _, _, _, _)
GroupPass(d, fs, i, curr_group_id, sim_th) ==
    IF i > Len(fs) THEN d
    ELSE IF d[fs[i]].sim_prev >= sim_th
         THEN GroupPass([d EXCEPT ![fs[i]].group_id = curr_group_id],
                        fs, i + 1, curr_group_id, sim_th)
         ELSE GroupPass([d EXCEPT ![fs[i]].group_id = curr_group_id + 1],
                        fs, i + 1, curr_group_id + 1, sim_th)

\* steps 1 and 2 without the line that gives the first file group 0
RefreshData_NoSeed(d, fs, blur_th, sim_th) ==
    GroupPass(BlurPass(d, fs, 1, blur_th), fs, 2, 0, sim_th)

\* steps 1 and 2 on records built anew from the scores: the marks are lost
RefreshData_Rebuild(d, fs, blur_th, sim_th) ==
    LET d0 == [f \in DOMAIN d |-> [NewRecord EXCEPT !.score = d[f].score,
                                                    !.sim_prev = d[f].sim_prev]]
        d1 == BlurPass(d0, fs, 1, blur_th)
        d2 == IF fs # <<>> THEN [d1 EXCEPT ![fs[1]].group_id = 0] ELSE d1
    IN  GroupPass(d2, fs, 2, 0, sim_th)

\* refresh_judgments_instantly, steps 1 and 2: the new image_data
RefreshData(d, fs, blur_th, sim_th) ==
    LET d1 == BlurPass(d, fs, 1, blur_th)
        d2 == IF fs # <<>> THEN [d1 EXCEPT ![fs[1]].group_id = 0] ELSE d1
    IN  GroupPass(d2, fs, 2, 0, sim_th)

\* refresh_judgments_instantly, step 3: the tally over all records
RefreshCounts(d) == CountIds(d, [f \in DOMAIN d |-> TRUE])

(* ------------------------------ display -------------------------------- *)

\* update_overlay_only over the list fs: with a base pixmap it reads
\* fs[current_idx], an IndexError when that position is not in the list
OverlayRaises(fs, idx, pixmap) == pixmap /\ idx >= Len(fs)

\* show_current_image: current_base_pixmap afterwards, imread giving loaded
ShownPixmap(fs, loaded) == IF fs = <<>> THEN has_pixmap ELSE has_pixmap \/ loaded

(* ------------------------------ commit --------------------------------- *)

\* execute_actions: the action collected for a file, "" when it is unmarked
ActionOf(d, f) ==
    IF d[f].to_delete THEN "delete" ELSE IF d[f].to_select THEN "select" ELSE ""

\* execute_actions: to_process, the marked files in list order
ToProcess(fs, d) == SelectSeq(fs, LAMBDA f : ActionOf(d, f) # "")

\* the loop body with count_del and count_sel raised ahead of shutil.move
MoveOne_CountFirst(st, fpath, fail) ==
    LET counted == [st EXCEPT
                      !.count_del = @ + (IF st.data[fpath].to_delete THEN 1 ELSE 0),
                      !.count_sel = @ + (IF st.data[fpath].to_delete THEN 0 ELSE 1),
                      !.attempted = @ \cup {fpath}]
    IN  IF fpath \in fail THEN counted
        ELSE [counted EXCEPT !.files = ListRemove(st.files, fpath),
                             !.data = DictDel(st.data, fpath)]

\* the loop body with self.files.remove(fpath) ahead of shutil.move
MoveOne_RemoveFirst(st, fpath, fail) ==
    IF fpath \in fail
    THEN [st EXCEPT !.files = ListRemove(st.files, fpath),
                    !.attempted = @ \cup {fpath}]
    ELSE [files     |-> ListRemove(st.files, fpath),
          data      |-> DictDel(st.data, fpath),
          count_del |-> st.count_del + (IF st.data[fpath].to_delete THEN 1 ELSE 0),
          count_sel |-> st.count_sel + (IF st.data[fpath].to_delete THEN 0 ELSE 1),
          attempted |-> st.attempted \cup {fpath}]

\* execute_actions: one pass of the loop body; shutil.move raises for the
\* files of fail, and the except clause passes
MoveOne(st, fpath, fail) ==
    IF fpath \in fail
    THEN [st EXCEPT !.attempted = @ \cup {fpath}]
    ELSE [files     |-> ListRemove(st.files, fpath),
          data      |-> DictDel(st.data, fpath),
          count_del |-> st.count_del + (IF ActionOf(st.data, fpath) = "delete" THEN 1 ELSE 0),
          count_sel |-> st.count_sel + (IF ActionOf(st.data, fpath) = "select" THEN 1 ELSE 0),
          attempted |-> st.attempted \cup {fpath}]

\* the loop with the try around it: the first failure ends the commit
RECURSIVE MoveLoop_AbortOnFailure(_, _, _, _)
MoveLoop_AbortOnFailure(st, to_process, i, fail) ==
    IF i > Len(to_process) THEN st
    ELSE IF to_process[i] \in fail
         THEN [st EXCEPT !.attempted = @ \cup {to_process[i]}]
         ELSE MoveLoop_AbortOnFailure(MoveOne(st, to_process[i], fail),
                                      to_process, i + 1, fail)

\* execute_actions: the loop over to_process from position i
RECURSIVE MoveLoop(_, _, _, _)
MoveLoop(st, to_process, i, fail) ==
    IF i > Len(to_process) THEN st
    ELSE MoveLoop(MoveOne(st, to_process[i], fail), to_process, i + 1, fail)

\* execute_actions on the list fs and the store d: the state after the loop
CommitFrom(fs, d, fail) ==
    MoveLoop([files |-> fs, data |-> d, count_del |-> 0, count_sel |-> 0,
              attempted |-> {}],
             ToProcess(fs, d), 1, fail)

\* execute_actions: the state after the loop
Committed(fail) == CommitFrom(files, image_data, fail)

\* the clamp to len(self.files) for len(self.files) - 1
Clamp_ToLength(idx, fs) == IF idx >= Len(fs) THEN Len(fs) ELSE idx

\* execute_actions: the clamp of current_idx
Clamp(idx, fs) ==
    IF idx >= Len(fs) THEN (IF Len(fs) - 1 > 0 THEN Len(fs) - 1 ELSE 0) ELSE idx

(* ------------------------- foreground handlers ------------------------- *)

\* ImageAnalyzer.stop has cleared the flag and its self.wait() has not yet
\* returned to the caller
Waiting == ~is_running /\ w_pc # "done"

\* sweep when refresh_judgments_instantly is not running
SweepIdle == [i |-> 0, curr_group_id |-> 0]

\* refresh_judgments_instantly has begun and not returned
Sweeping == sweep # SweepIdle

\* an event loop that dispatches a handler while another one is running
Foreground_Reentrant == ~crashed /\ ~Waiting

\* the event loop dispatches handlers one at a time while the process lives
\* and the foreground is not held in a wait: no handler starts before the one
\* running has returned
Foreground == ~crashed /\ ~Waiting /\ ~Sweeping

\* keyPressEvent returns at once on an empty list
KeyGuard == Foreground /\ files # <<>>

\* Key_D without the line that clears to_select
ToggleDelete_KeepSelect(r) == [r EXCEPT !.to_delete = ~@]

\* Key_E that only takes the delete mark off a record marked delete
ToggleSelect_TwoPresses(r) ==
    IF r.to_delete THEN [r EXCEPT !.to_delete = FALSE]
    ELSE [r EXCEPT !.to_select = ~@]

\* keyPressEvent, Key_D: the marks of fpath afterwards
ToggleDelete(r) ==
    LET del == ~r.to_delete
    IN  [r EXCEPT !.to_delete = del, !.to_select = IF del THEN FALSE ELSE @]

\* keyPressEvent, Key_E: the marks of fpath afterwards
ToggleSelect(r) ==
    LET sel == ~r.to_select
    IN  [r EXCEPT !.to_select = sel, !.to_delete = IF sel THEN FALSE ELSE @]

\* keyPressEvent, Key_D
KeyD ==
    /\ KeyGuard
    /\ LET fpath == files[current_idx + 1]
       IN  image_data' = [image_data EXCEPT ![fpath] = ToggleDelete(@)]
    /\ crashed' = OverlayRaises(files, current_idx, has_pixmap)
    /\ UNCHANGED <<files, group_counts, current_idx, slider_blur, slider_sim,
                   has_pixmap, ingested, w_pc, w_it, last_img_sim, is_running,
                   queue, sweep>>

\* keyPressEvent, Key_E
KeyE ==
    /\ KeyGuard
    /\ LET fpath == files[current_idx + 1]
       IN  image_data' = [image_data EXCEPT ![fpath] = ToggleSelect(@)]
    /\ crashed' = OverlayRaises(files, current_idx, has_pixmap)
    /\ UNCHANGED <<files, group_counts, current_idx, slider_blur, slider_sim,
                   has_pixmap, ingested, w_pc, w_it, last_img_sim, is_running,
                   queue, sweep>>

\* keyPressEvent, Key_Right and Key_Left: the move to position idx, then
\* show_current_image
Navigate(idx) ==
    /\ current_idx' = idx
    /\ \E loaded \in BOOLEAN : has_pixmap' = ShownPixmap(files, loaded)
    /\ UNCHANGED <<files, image_data, group_counts, slider_blur, slider_sim,
                   ingested, crashed, w_pc, w_it, last_img_sim, is_running,
                   queue, sweep>>

\* keyPressEvent, Key_Right
KeyRight ==
    /\ KeyGuard
    /\ current_idx < Len(files) - 1
    /\ Navigate(current_idx + 1)

\* keyPressEvent, Key_Left
KeyLeft ==
    /\ KeyGuard
    /\ current_idx > 0
    /\ Navigate(current_idx - 1)

\* keyPressEvent, Key_F: execute_actions, shutil.move failing for the files of fail
execute_actions(fail) ==
    /\ KeyGuard
    /\ ToProcess(files, image_data) # <<>>
    /\ LET st == Committed(fail)
       IN  /\ files' = st.files
           /\ image_data' = st.data
           /\ current_idx' = Clamp(current_idx, st.files)
           /\ \E loaded \in BOOLEAN : has_pixmap' = ShownPixmap(st.files, loaded)
    /\ UNCHANGED <<group_counts, slider_blur, slider_sim, ingested, crashed,
                   w_pc, w_it, last_img_sim, is_running, queue, sweep>>

\* keyPressEvent, Key_F
KeyF == \E fail \in SUBSET Range(ToProcess(files, image_data)) : execute_actions(fail)

\* refresh_judgments_instantly with the sliders at blur_th and sim_th
refresh_judgments_instantly(blur_th, sim_th) ==
    /\ image_data' = RefreshData(image_data, files, blur_th, sim_th)
    /\ group_counts' = RefreshCounts(image_data')
    /\ crashed' = OverlayRaises(files, current_idx, has_pixmap)
    /\ UNCHANGED <<files, current_idx, has_pixmap, ingested, w_pc, w_it,
                   last_img_sim, is_running, queue, sweep>>

\* slider_blur.valueChanged
SliderBlur ==
    /\ Foreground
    /\ \E v \in BlurSliderVals \ {slider_blur} :
          /\ slider_blur' = v
          /\ slider_sim' = slider_sim
          /\ refresh_judgments_instantly(v, slider_sim)

\* slider_sim.valueChanged
SliderSim ==
    /\ Foreground
    /\ \E v \in SimSliderVals \ {slider_sim} :
          /\ slider_sim' = v
          /\ slider_blur' = slider_blur
          /\ refresh_judgments_instantly(slider_blur, v)

\* handle_analysis_result, the slot of result_ready, on the oldest posted result
handle_analysis_result ==
    /\ Foreground
    /\ queue # <<>>
    /\ queue' = Tail(queue)
    /\ LET res == Head(queue)
           fpath == res.fpath
       IN  IF fpath \notin DOMAIN image_data
           THEN /\ crashed' = TRUE
                /\ UNCHANGED <<image_data, group_counts, ingested>>
           ELSE LET d1 == [image_data EXCEPT ![fpath].score = res.blur_score,
                                             ![fpath].sim_prev = res.sim_score]
                    d2 == apply_judgment_logic(d1, files, fpath, slider_blur,
                                               slider_sim, TRUE)
                IN  /\ image_data' = d2
                    /\ group_counts' = IngestCounts(d2, group_counts)
                    /\ ingested' = ingested \cup {fpath}
                    /\ crashed' = \/ current_idx >= Len(files)
                                  \/ /\ files[current_idx + 1] = fpath
                                     /\ OverlayRaises(files, current_idx, has_pixmap)
    /\ UNCHANGED <<files, current_idx, slider_blur, slider_sim, has_pixmap,
                   w_pc, w_it, last_img_sim, is_running, sweep>>

(* ------------------------- the analysis thread ------------------------- *)

\* a queued connection that hands the newest posted signal to the slot first
Post_Front(q, res) == <<res>> \o q

\* result_ready.emit across threads: the signal is posted behind those the
\* foreground has not yet handled
Post(q, res) == Append(q, res)

\* last_img_sim = None
NoImage == 0

\* ImageAnalyzer.run: the similarity of the image at enumerate index i
SimScores(i) == IF i > 0 /\ last_img_sim # NoImage THEN SimVals ELSE {0}

\* a loop that compares with the file at the index before: a file that did
\* not load leaves no image to compare with
NextReference_IndexRelative(last, fpath, loaded) == IF loaded THEN fpath ELSE NoImage

\* ImageAnalyzer.run: last_img_sim after the turn on fpath; continue on a
\* failed load comes before the assignment
NextReference(last, fpath, loaded) == IF loaded THEN fpath ELSE last

\* a loop that never looks at the flag
StopRequested_Ignored == FALSE

\* ImageAnalyzer.run: if not self.is_running
StopRequested == ~is_running

\* ImageAnalyzer.run: one turn of the for loop over the shared list.  imread
\* gives None (loaded false) for an unreadable file and for one that a commit
\* has moved away
WorkerStep ==
    /\ ~crashed
    /\ w_pc = "loop"
    /\ IF w_it >= Len(files)
       THEN /\ w_pc' = "done"
            /\ UNCHANGED <<w_it, queue, last_img_sim>>
       ELSE LET i == w_it
                fpath == files[w_it + 1]
            IN  /\ w_it' = w_it + 1
                /\ IF StopRequested
                   THEN /\ w_pc' = "done"
                        /\ UNCHANGED <<queue, last_img_sim>>
                   ELSE /\ w_pc' = "loop"
                        /\ \E loaded \in BOOLEAN :
                              LET img == loaded /\ fpath \in DOMAIN image_data
                              IN  /\ last_img_sim' = NextReference(last_img_sim, fpath, img)
                                  /\ IF img
                                     THEN \E blur_score \in ScoreVals,
                                             sim_score \in SimScores(i) :
                                             queue' = Post(queue,
                                                 [fpath |-> fpath,
                                                  blur_score |-> blur_score,
                                                  sim_score |-> sim_score])
                                     ELSE UNCHANGED queue
    /\ UNCHANGED <<files, image_data, group_counts, current_idx, slider_blur,
                   slider_sim, has_pixmap, ingested, crashed, is_running, sweep>>

(* --------------------------- specification ----------------------------- *)

\* PhotoReviewApp.__init__ on a folder of NumFiles images
Init ==
    /\ files = [i \in 1..NumFiles |-> i]
    /\ image_data = [f \in Paths |-> NewRecord]
    /\ group_counts = [g \in {} |-> 0]
    /\ current_idx = 0
    /\ slider_blur = DEFAULT_BLUR_THRESHOLD
    /\ slider_sim = DEFAULT_SIMILARITY_THRESHOLD
    /\ has_pixmap \in BOOLEAN
    /\ w_pc = "loop"
    /\ w_it = 0
    /\ last_img_sim = NoImage
    /\ is_running = TRUE
    /\ queue = <<>>
    /\ ingested = {}
    /\ crashed = FALSE
    /\ sweep = SweepIdle

Next ==
    \/ KeyD
    \/ KeyE
    \/ KeyRight
    \/ KeyLeft
    \/ KeyF
    \/ SliderBlur
    \/ SliderSim
    \/ handle_analysis_result
    \/ WorkerStep

Spec == Init /\ [][Next]_vars

(* ----------------- the re-classification, turn by turn ----------------- *)

\* refresh_judgments_instantly from its entry to the top of the loop of step
\* 2: step 1, curr_group_id = 0 and group 0 for the first file
SweepBegin(blur_th) ==
    /\ LET d1 == BlurPass(image_data, files, 1, blur_th)
       IN  image_data' = IF files # <<>> THEN [d1 EXCEPT ![files[1]].group_id = 0]
                         ELSE d1
    /\ sweep' = [i |-> 2, curr_group_id |-> 0]
    /\ UNCHANGED <<files, group_counts, current_idx, has_pixmap, ingested,
                   crashed, w_pc, w_it, last_img_sim, is_running, queue>>

\* slider_blur.valueChanged, up to the loop of step 2
SweepSliderBlur ==
    /\ Foreground
    /\ \E v \in BlurSliderVals \ {slider_blur} :
          /\ slider_blur' = v
          /\ slider_sim' = slider_sim
          /\ SweepBegin(v)

\* slider_sim.valueChanged, up to the loop of step 2
SweepSliderSim ==
    /\ Foreground
    /\ \E v \in SimSliderVals \ {slider_sim} :
          /\ slider_sim' = v
          /\ slider_blur' = slider_blur
          /\ SweepBegin(slider_blur)

\* refresh_judgments_instantly, step 2: one turn of the loop, on files[i]
SweepTurn ==
    /\ ~crashed
    /\ Sweeping
    /\ sweep.i <= Len(files)
    /\ LET fpath == files[sweep.i]
           gid == IF image_data[fpath].sim_prev >= slider_sim
                  THEN sweep.curr_group_id ELSE sweep.curr_group_id + 1
       IN  /\ image_data' = [image_data EXCEPT ![fpath].group_id = gid]
           /\ sweep' = [i |-> sweep.i + 1, curr_group_id |-> gid]
    /\ UNCHANGED <<files, group_counts, current_idx, slider_blur, slider_sim,
                   has_pixmap, ingested, crashed, w_pc, w_it, last_img_sim,
                   is_running, queue>>

\* refresh_judgments_instantly, steps 3 and 4, and the return
SweepEnd ==
    /\ ~crashed
    /\ Sweeping
    /\ sweep.i > Len(files)
    /\ group_counts' = RefreshCounts(image_data)
    /\ crashed' = OverlayRaises(files, current_idx, has_pixmap)
    /\ sweep' = SweepIdle
    /\ UNCHANGED <<files, image_data, current_idx, slider_blur, slider_sim,
                   has_pixmap, ingested, w_pc, w_it, last_img_sim, is_running,
                   queue>>

NextSweep ==
    \/ KeyD
    \/ KeyE
    \/ KeyRight
    \/ KeyLeft
    \/ KeyF
    \/ SweepSliderBlur
    \/ SweepSliderSim
    \/ SweepTurn
    \/ SweepEnd
    \/ handle_analysis_result
    \/ WorkerStep

\* the program with the thread free to run between the turns of the loops of
\* refresh_judgments_instantly
SpecSweep == Init /\ [][NextSweep]_vars

(* ----------------------- the thread being stopped ---------------------- *)

\* ImageAnalyzer.stop, called from the foreground: the flag is cleared and the
\* caller waits for run to return
Stop ==
    /\ Foreground
    /\ is_running
    /\ is_running' = FALSE
    /\ UNCHANGED <<files, image_data, group_counts, current_idx, slider_blur,
                   slider_sim, has_pixmap, w_pc, w_it, last_img_sim, queue,
                   ingested, crashed, sweep>>

NextStop ==
    \/ KeyD
    \/ KeyE
    \/ KeyRight
    \/ KeyLeft
    \/ KeyF
    \/ SliderBlur
    \/ SliderSim
    \/ handle_analysis_result
    \/ WorkerStep
    \/ Stop

\* the program with a caller of stop; the thread is scheduled while it lives
SpecStop == Init /\ [][NextStop]_vars /\ WF_vars(WorkerStep)

(* ------------------------------- claims -------------------------------- *)

\* the mark state of a record
MarkOf(r) ==
    IF r.to_delete /\ r.to_select THEN "both"
    ELSE IF r.to_delete THEN "delete"
    ELSE IF r.to_select THEN "select"
    ELSE "unmarked"

\* C1: in every reachable state no record has both to_delete and to_select
\* true.
C1_MutualExclusion ==
    \A f \in DOMAIN image_data :
        ~(image_data[f].to_delete /\ image_data[f].to_select)

\* C1: a delete mark and a select mark stand side by side after a commit has
\* removed a record, a result has been ingested and a threshold has changed.
C1_Witness ==
    /\ \E f \in DOMAIN image_data : image_data[f].to_delete
    /\ \E f \in DOMAIN image_data : image_data[f].to_select
    /\ Len(files) < NumFiles
    /\ ingested # {}
    /\ slider_sim # DEFAULT_SIMILARITY_THRESHOLD

\* the transition table of the marks
AfterToggleDelete(m) == IF m = "delete" THEN "unmarked" ELSE "delete"
AfterToggleSelect(m) == IF m = "select" THEN "unmarked" ELSE "select"

\* the marks of every record but fpath are the same after the step
OthersKeepMarks(fpath) ==
    /\ DOMAIN image_data' = DOMAIN image_data
    /\ \A g \in (DOMAIN image_data) \ {fpath} :
          /\ image_data'[g].to_delete = image_data[g].to_delete
          /\ image_data'[g].to_select = image_data[g].to_select

\* C2: a Key_D step takes the mark of files[current_idx] from unmarked to
\* delete, from delete to unmarked and from select to delete; a Key_E step
\* takes it from unmarked to select, from select to unmarked and from delete
\* to select; either step leaves the marks of every other record unchanged.
C2_TransitionTable ==
    [][ /\ KeyD => /\ MarkOf(image_data'[files[current_idx + 1]])
                        = AfterToggleDelete(MarkOf(image_data[files[current_idx + 1]]))
                   /\ OthersKeepMarks(files[current_idx + 1])
        /\ KeyE => /\ MarkOf(image_data'[files[current_idx + 1]])
                        = AfterToggleSelect(MarkOf(image_data[files[current_idx + 1]]))
                   /\ OthersKeepMarks(files[current_idx + 1])
      ]_vars

\* C2: the record on display is marked select, a record that is not on
\* display is marked delete, and a third is unmarked.
C2_Witness ==
    /\ Len(files) = NumFiles
    /\ MarkOf(image_data[files[current_idx + 1]]) = "select"
    /\ \E g \in DOMAIN image_data : MarkOf(image_data[g]) = "delete"
    /\ \E g \in DOMAIN image_data : MarkOf(image_data[g]) = "unmarked"

\* the group id of the file at position i of the list
GroupAt(fs, d, i) == d[fs[i]].group_id

\* the boundary rule along the list fs with the store d at threshold sim_th
BoundaryRule(fs, d, sim_th) ==
    /\ fs # <<>> => GroupAt(fs, d, 1) = 0
    /\ \A i \in 1..(Len(fs) - 1) :
          GroupAt(fs, d, i + 1) =
              IF d[fs[i + 1]].sim_prev >= sim_th
              THEN GroupAt(fs, d, i) ELSE GroupAt(fs, d, i) + 1

\* a step of refresh_judgments_instantly: valueChanged of a slider has fired
ThresholdChanged == slider_blur' # slider_blur \/ slider_sim' # slider_sim

\* C3: right after a full re-classification the first file has group 0 and
\* each next file has the group of the file before it when its sim_prev is
\* at least the threshold, and that group plus one otherwise.
C3_BoundaryRule ==
    [][ThresholdChanged => BoundaryRule(files', image_data', slider_sim')]_vars

\* C3: similarities [-, 0.95, 0.40] at threshold 0.85 with group ids
\* [0, 0, 1], a threshold having been changed.
C3_Witness ==
    /\ Len(files) = 3
    /\ slider_sim = 85
    /\ slider_blur # DEFAULT_BLUR_THRESHOLD
    /\ image_data[files[2]].sim_prev = 95
    /\ image_data[files[3]].sim_prev = 40
    /\ GroupAt(files, image_data, 1) = 0
    /\ GroupAt(files, image_data, 2) = 0
    /\ GroupAt(files, image_data, 3) = 1
    /\ group_counts = (0 :> 2) @@ (1 :> 1)

\* C4: in every reachable state the group ids of adjacent files do not
\* decrease along the list and differ by 0 or 1.
C4_MonotonicGrouping ==
    \A i \in 1..(Len(files) - 1) :
        /\ GroupAt(files, image_data, i) <= GroupAt(files, image_data, i + 1)
        /\ GroupAt(files, image_data, i + 1) - GroupAt(files, image_data, i) \in {0, 1}

\* group_counts.get(g, 0)
CountOf(g) == IF g \in DOMAIN group_counts THEN group_counts[g] ELSE 0

\* C5: in every reachable state group_counts[g] (0 if absent) is the number
\* of records in the store whose group_id is g, for every g >= 0.
C5_CountsMatch ==
    \A g \in 0..NumFiles :
        CountOf(g) = Cardinality({f \in DOMAIN image_data : image_data[f].group_id = g})

\* the files a commit started now would process
MarkedNow == Range(ToProcess(files, image_data))

\* the list fs without the files of gone, in the same order
Without(fs, gone) == SelectSeq(fs, LAMBDA f : f \notin gone)

\* C6, on the result of the loop for every set of failing moves
C6_Loop ==
    KeyGuard =>
        \A fail \in SUBSET MarkedNow :
            LET st == Committed(fail)
            IN  /\ \A f \in fail : /\ f \in Range(st.files)
                                   /\ f \in DOMAIN st.data
                                   /\ st.data[f] = image_data[f]
                /\ st.files = Without(files, MarkedNow \ Range(st.files))
                /\ st.attempted = MarkedNow

\* C6, on a step that shortens the list: a commit that moved some file
C6_Step ==
    files' # files =>
        /\ files' = Without(files, Range(files) \ Range(files'))
        /\ \A f \in MarkedNow \cap Range(files') :
              /\ f \in DOMAIN image_data'
              /\ image_data'[f] = image_data[f]

\* C6: in a commit a file whose move fails stays in the list, in order with
\* the files that stay, its record stays in the store with marks and scores
\* as they were, and the loop still attempts every file marked at its start.
C6_FailedMoveKept == []C6_Loop /\ [][C6_Step]_vars

\* C6: a commit has removed a record and two files are still marked.
C6_Witness ==
    /\ ~crashed
    /\ Len(files) = NumFiles - 1
    /\ Cardinality(MarkedNow) = 2

\* the files of s marked delete, and those marked select only
DeleteMarked(s) == {f \in s : image_data[f].to_delete}
SelectMarked(s) == {f \in s : ~image_data[f].to_delete /\ image_data[f].to_select}

\* C7, on the result of the loop for every set of failing moves
C7_Loop ==
    KeyGuard =>
        \A fail \in SUBSET MarkedNow :
            LET st == Committed(fail)
                moved == MarkedNow \ fail
            IN  /\ Range(st.files) = Range(files) \ moved
                /\ DOMAIN st.data = (DOMAIN image_data) \ moved
                /\ st.count_del = Cardinality(DeleteMarked(moved))
                /\ st.count_sel = Cardinality(SelectMarked(moved))
                /\ Len(st.files) = Len(files) - (st.count_del + st.count_sel)
                /\ \A f \in Range(files) \ MarkedNow :
                      /\ f \in Range(st.files)
                      /\ st.data[f] = image_data[f]

\* C7, on a step that changes the list or the keys of the store
C7_Step ==
    (files' # files \/ DOMAIN image_data' # DOMAIN image_data) =>
        LET moved == Range(files) \ Range(files')
        IN  /\ moved \subseteq MarkedNow
            /\ DOMAIN image_data' = (DOMAIN image_data) \ moved
            /\ Len(files') = Len(files) - Cardinality(moved)
            /\ \A f \in DOMAIN image_data' : image_data'[f] = image_data[f]

\* C7: a commit removes a record and its list entry exactly when the file was
\* marked and its move succeeded; count_del and count_sel are the numbers of
\* delete-marked and select-marked files moved; the list is shorter by
\* count_del + count_sel; unmarked records stay as they were.
C7_RemovedIffMoved == []C7_Loop /\ [][C7_Step]_vars

\* C7: a commit has removed one record; of the files left one is marked
\* delete and one is unmarked.
C7_Witness ==
    /\ ~crashed
    /\ Len(files) = NumFiles - 1
    /\ \E f \in MarkedNow : image_data[f].to_delete
    /\ \E f \in Range(files) : f \notin MarkedNow
    /\ ingested # {}

\* C8, on the result of a commit whose moves all fail and of the commit after it
C8_Loop ==
    (KeyGuard /\ MarkedNow # {}) =>
        LET st1 == CommitFrom(files, image_data, MarkedNow)
            st2 == CommitFrom(st1.files, st1.data, MarkedNow)
        IN  /\ st1.files = files /\ st1.data = image_data
            /\ st1.count_del = 0 /\ st1.count_sel = 0
            /\ st2.files = files /\ st2.data = image_data
            /\ st2.count_del = 0 /\ st2.count_sel = 0

\* C8, on the step of a commit whose moves all fail
C8_Step ==
    execute_actions(MarkedNow) =>
        /\ files' = files
        /\ image_data' = image_data
        /\ group_counts' = group_counts
        /\ current_idx' = current_idx
        /\ MarkedNow' = MarkedNow

\* C8: a commit in which every move fails leaves the store, the marks and the
\* list as they were and reports no move, and so does the same commit run
\* again on its result.
C8_IdempotentOnFailure == []C8_Loop /\ [][C8_Step]_vars

\* C8: every file left in the list is marked, after a commit that moved one.
C8_Witness ==
    /\ ~crashed
    /\ Len(files) = NumFiles - 1
    /\ MarkedNow = Range(files)
    /\ has_pixmap

\* the blur flag and group id of every record
Judgments(d) == [f \in DOMAIN d |-> <<d[f].is_blur, d[f].group_id>>]

\* the store d with other judgments and marks on every record
Rejudged(d, blur, gid) ==
    [f \in DOMAIN d |-> [d[f] EXCEPT !.is_blur = blur, !.group_id = gid,
                                     !.to_delete = blur, !.to_select = ~blur]]

\* stores that differ from d in judgments and marks only
OtherStores(d) == {Rejudged(d, blur, gid) : blur \in BOOLEAN, gid \in {NO_GROUP, NumFiles}}

\* C9, on the step of a full re-classification
C9_Step ==
    ThresholdChanged =>
        /\ \A d2 \in OtherStores(image_data) :
              Judgments(RefreshData(d2, files, slider_blur', slider_sim'))
                  = Judgments(image_data')
        /\ \A f \in DOMAIN image_data' :
              image_data'[f].is_blur = (image_data[f].score < slider_blur')
        /\ RefreshData(image_data', files', slider_blur', slider_sim') = image_data'
        /\ RefreshCounts(image_data') = group_counts'

\* C9: a full re-classification gives every file the is_blur and group_id
\* that it gives in any store with the same list, scores, sim_prev and
\* thresholds, whatever the judgments and marks were before; run again on its
\* own result it changes nothing.
C9_Deterministic == [][C9_Step]_vars

\* C9: a threshold has changed, a record that no result was ingested for has
\* a group id, and ingested records carry marks and judgments.
C9_Witness ==
    /\ Len(files) = NumFiles
    /\ slider_blur # DEFAULT_BLUR_THRESHOLD
    /\ \E f \in DOMAIN image_data : f \notin ingested /\ image_data[f].group_id > 0
    /\ \E f \in ingested : f \in DOMAIN image_data /\ image_data[f].is_blur
    /\ \E f \in DOMAIN image_data : image_data[f].to_delete

\* C10: in every reachable state a record that no result has been ingested
\* for has is_blur false.
C10_UnanalyzedNeverBlur ==
    \A f \in (DOMAIN image_data) \ ingested : ~image_data[f].is_blur

\* the paths of the results posted and not yet handled, oldest first
Pending == [k \in 1..Len(queue) |-> queue[k].fpath]

\* C11, on the results in flight: they are in file order, one per file, and
\* each is for a file later than every file already ingested
C11_Pending ==
    /\ \A j, k \in 1..Len(queue) : j < k => Pending[j] < Pending[k]
    /\ \A k \in 1..Len(queue) : \A g \in ingested : g < Pending[k]

\* C11, on a step: an ingest is of one file, not ingested before and later
\* than every file ingested before; a turn of the loop that emits nothing
\* while the thread runs leaves the loop going
C11_Step ==
    /\ ingested' # ingested =>
          \E f \in Paths \ ingested :
              /\ ingested' = ingested \cup {f}
              /\ f = Head(queue).fpath
              /\ \A g \in ingested : g < f
    /\ (w_it' = w_it + 1 /\ queue' = queue /\ is_running) => w_pc' = "loop"

\* C11: results are ingested in file order, at most one per file: a file
\* ingested before another precedes it in the load-time order; a file whose
\* image fails to load gives no result and the loop goes on to the files
\* after it.
C11_ResultsInOrder == []C11_Pending /\ [][C11_Step]_vars

\* C11: of a full list the first file gave no result and the two files after
\* it have been ingested.
C11_Witness ==
    /\ Len(files) = NumFiles
    /\ ingested = {2, 3}
    /\ queue = <<>>

\* C12, on a step taken with the flag cleared: no result is emitted, the
\* reference image is not replaced, and a turn of the loop ends the thread
\* having fetched at most the one item whose turn saw the flag
C12_NoFurtherFile ==
    ~is_running =>
        /\ queue' = queue \/ queue' = Tail(queue)
        /\ last_img_sim' = last_img_sim
        /\ (w_it' # w_it \/ w_pc' # w_pc) => (w_pc' = "done" /\ w_it' <= w_it + 1)
        /\ ~is_running'

\* C12, on the step that clears the flag: the store, the counts, the list and
\* the results in flight are as they were
C12_StopKeeps ==
    (is_running /\ ~is_running') =>
        /\ image_data' = image_data
        /\ group_counts' = group_counts
        /\ files' = files
        /\ queue' = queue
        /\ ingested' = ingested

\* C12: once is_running is cleared the loop starts no further file (no load,
\* no result) and the thread terminates; the clearing leaves the scores and
\* judgments of the records ingested before it unchanged.
C12_Cancellation ==
    /\ [][C12_NoFurtherFile /\ C12_StopKeeps]_vars
    /\ (~is_running ~> w_pc = "done")

\* C12: the thread has ended on the cleared flag with files left that it
\* never reached, one record ingested before the flag was cleared.
C12_Witness ==
    /\ ~is_running
    /\ w_pc = "done"
    /\ w_it < Len(files)
    /\ Len(files) = NumFiles
    /\ ingested = {1}
    /\ queue = <<>>

\* C13: in every reachable state no exception has escaped a foreground
\* handler while current_idx was not a position of the list: every read of
\* files[current_idx] found the list non-empty and the index valid, also
\* after a commit that removed every file.
C13_NoUnhandledError == ~(crashed /\ current_idx >= Len(files))

\* C14: in every reachable state the result that handle_analysis_result is
\* to receive next is for a file whose record is in the store.
C14_ResultHasRecord ==
    queue # <<>> => Head(queue).fpath \in DOMAIN image_data

\* the thread has ended without being cancelled, and each of the w_it files
\* its loop fetched gave a result that has been ingested: every image it
\* tried to load did load
EndedAllLoaded ==
    /\ w_pc = "done"
    /\ is_running
    /\ ~crashed
    /\ queue = <<>>
    /\ Cardinality(ingested) = w_it

\* C15: when the thread, not cancelled, has ended and every image it tried
\* loaded, every file still in the list has had its result ingested: the
\* loop skipped no file.
C15_NoFileSkipped == EndedAllLoaded => Range(files) \subseteq ingested

\* C16, on a step taken while refresh_judgments_instantly is running: no
\* result is ingested; the thread may post one
C16_NoIngestInSweep ==
    Sweeping => /\ ingested' = ingested
                /\ Len(queue') >= Len(queue)
                /\ crashed' = crashed \/ ~Sweeping'

\* C16, on the step that ends refresh_judgments_instantly: no group id is a
\* mix of old and new, the store is the one a re-classification in one step
\* gives, and the tally is of that store
C16_SweepResult ==
    (Sweeping /\ ~Sweeping') =>
        /\ BoundaryRule(files', image_data', slider_sim')
        /\ image_data' = RefreshData(image_data', files', slider_blur', slider_sim')
        /\ group_counts' = RefreshCounts(image_data')

\* C16: no handle_analysis_result step runs between the start and the end of
\* refresh_judgments_instantly, so the re-classification ends with every
\* group id from the same sweep, none assigned by an ingest in between.
C16_SweepAtomic == [][C16_NoIngestInSweep /\ C16_SweepResult]_vars

\* C16: a result is posted and waits while the loop of step 2 is half way
\* through a full list, an earlier result having been ingested.
C16_Witness ==
    /\ Sweeping
    /\ sweep.i = NumFiles
    /\ Len(files) = NumFiles
    /\ queue # <<>>
    /\ ingested # {}

\* C17, on the step that ingests the result of f
C17_Ingest(f) ==
    LET idx  == IndexOf(files, f)
        full == RefreshData(image_data', files', slider_blur', slider_sim')
    IN  /\ idx > 1 => image_data[files[idx - 1]].group_id # NO_GROUP
        /\ \A j \in 1..idx :
              image_data'[files[j]].group_id = full[files[j]].group_id

\* C17: when the result of a file that is not the first is ingested, the
\* file before it in the list is already classified, and after the ingest
\* the group ids of the files up to the ingested one are those a full
\* re-classification of the same store at the same thresholds assigns.
C17_IncrementalAgrees ==
    [][\A f \in Paths \ ingested : ingested' = ingested \cup {f} => C17_Ingest(f)]_vars

\* the records in the store whose result has been ingested
IngestedRecords == ingested \cap DOMAIN image_data

\* C18, on a state: the flag of every ingested record is the comparison of
\* its score with the threshold now set; a score of 150 is judged not blur
\* at threshold 100 and blur at threshold 200
C18_FlagIsComparison ==
    \A f \in IngestedRecords :
        /\ image_data[f].is_blur = (image_data[f].score < slider_blur)
        /\ image_data[f].score = 150 =>
              /\ ~JudgeBlur(image_data, f, 100)[f].is_blur
              /\ JudgeBlur(image_data, f, 200)[f].is_blur

\* C18, on a threshold change: no score changes and nothing is analysed
C18_NoReanalysis ==
    ThresholdChanged =>
        /\ DOMAIN image_data' = DOMAIN image_data
        /\ \A f \in DOMAIN image_data : image_data'[f].score = image_data[f].score
        /\ queue' = queue
        /\ w_it' = w_it

\* C18: in every reachable state every ingested record has is_blur = (score
\* < blur threshold now set); a threshold change updates the flags without
\* a new analysis or a change of a stored score.
C18_BlurFollowsThreshold == []C18_FlagIsComparison /\ [][C18_NoReanalysis]_vars

\* C18: the blur threshold stands at 200, off its default, and an ingested
\* record with score 150 is flagged blur; every result has been ingested.
C18_Witness ==
    /\ slider_blur = 200
    /\ Len(files) = NumFiles
    /\ IngestedRecords = Range(files)
    /\ \E f \in IngestedRecords : image_data[f].score = 150 /\ image_data[f].is_blur

\* the files a result has been emitted for: ingested, or posted and waiting
Emitted == ingested \cup Range(Pending)

\* the latest file of a non-empty set of paths
Latest(S) == CHOOSE f \in S : \A g \in S : g <= f

\* C19, on a state: the image kept for comparison is that of the most recent
\* file whose image loaded, none before any has
C19_Reference ==
    ~crashed =>
        last_img_sim = IF Emitted = {} THEN NoImage ELSE Latest(Emitted)

\* C19, on a turn of the loop: an emitted similarity is 0 at index 0 and when
\* no image is kept, else a value of the comparison with the kept image, and
\* the file's image is kept in its place; a turn that emits nothing keeps
\* the image that was kept
C19_Turn ==
    (w_it' = w_it + 1 /\ is_running) =>
        IF Len(queue') > Len(queue)
        THEN LET r == queue'[Len(queue')]
             IN  /\ r.fpath = files[w_it + 1]
                 /\ (w_it = 0 \/ last_img_sim = NoImage) => r.sim_score = 0
                 /\ (w_it > 0 /\ last_img_sim # NoImage) =>
                       /\ r.sim_score \in SimVals
                       /\ last_img_sim < r.fpath
                 /\ last_img_sim' = r.fpath
        ELSE last_img_sim' = last_img_sim

\* C19: the similarity emitted for a file is computed against the most
\* recent earlier file whose image loaded, not the file at the index before;
\* it is 0 for the first file and for a file with no loaded predecessor, and
\* a failed load leaves the reference as it was for the next file.
C19_ChainRelative == []C19_Reference /\ [][C19_Turn]_vars

\* C19: of a full list the second file gave no result, and the third has a
\* similarity above 0: it was compared with the first.
C19_Witness ==
    /\ Len(files) = NumFiles
    /\ ingested = {1, 3}
    /\ queue = <<>>
    /\ image_data[3].sim_prev = 95
    /\ last_img_sim = 3

\* the fields named in keep are the same in every record after the step, and
\* no record comes or goes
SameFields(keep) ==
    /\ DOMAIN image_data' = DOMAIN image_data
    /\ \A f \in DOMAIN image_data : \A k \in keep :
          image_data'[f][k] = image_data[f][k]

\* C20, on a step
C20_Frame ==
    /\ ThresholdChanged =>
          /\ SameFields({"score", "sim_prev", "to_delete", "to_select"})
          /\ files' = files
    /\ (KeyD \/ KeyE) =>
          /\ SameFields({"score", "sim_prev", "is_blur", "group_id"})
          /\ group_counts' = group_counts
    /\ handle_analysis_result => SameFields({"to_delete", "to_select"})

\* C20: a threshold change leaves every record's score, sim_prev, to_delete
\* and to_select and the file list unchanged; a mark toggle leaves every
\* record's score, sim_prev, is_blur and group_id and group_counts unchanged;
\* an ingest leaves every record's marks unchanged.
C20_Orthogonal == [][C20_Frame]_vars

\* C20: both thresholds are off their defaults, every file has been ingested,
\* one is marked delete and one select, and a similarity of 0.95 is stored.
C20_Witness ==
    /\ slider_blur # DEFAULT_BLUR_THRESHOLD
    /\ slider_sim # DEFAULT_SIMILARITY_THRESHOLD
    /\ Len(files) = NumFiles
    /\ Range(files) \subseteq ingested
    /\ \E f \in DOMAIN image_data : image_data[f].to_delete
    /\ \E f \in DOMAIN image_data : image_data[f].to_select
    /\ \E f \in DOMAIN image_data : image_data[f].sim_prev = 95

\* C21, on a state: with a file in the list current_idx is a position of it
C21_InBounds ==
    files # <<>> => (0 <= current_idx /\ current_idx < Len(files))

\* C21, on a step: a commit that leaves the list no longer than the old
\* position puts current_idx on the last index; Key_Right and Key_Left move
\* it by one, to a position of the list
C21_Moves ==
    /\ (files' # files /\ files' # <<>> /\ current_idx >= Len(files')) =>
          current_idx' = Len(files') - 1
    /\ (files' # files /\ current_idx < Len(files')) => current_idx' = current_idx
    /\ KeyRight => (current_idx' = current_idx + 1 /\ current_idx' < Len(files'))
    /\ KeyLeft => (current_idx' = current_idx - 1 /\ current_idx' >= 0)

\* C21: in every reachable state with a non-empty list 0 <= current_idx <
\* len(files); after a commit that shrinks the list below the old position
\* current_idx is the last valid index; Key_Left and Key_Right never move
\* it outside the list.
C21_PositionInBounds == []C21_InBounds /\ [][C21_Moves]_vars

\* C21: commits have removed the first files of the list down to its last
\* one, which is on display at index 0.
C21_Witness ==
    /\ ~crashed
    /\ files = <<NumFiles>>
    /\ current_idx = 0
    /\ has_pixmap

====
